---- MODULE Spec2Model ----
(***************************************************************************)
(* Knowledge-graph embedding models (DistMult, Structured Embedding) and   *)
(* the training pipeline that drives them.                                 *)
(*                                                                         *)
(* Numbers.  An embedding component x is held in fixed point as the        *)
(* integer round(x * Scale).  Products and sums are exact; the only        *)
(* rounding happens where the code takes a square root or divides          *)
(* (functional.normalize, torch.norm with p = 2, the SGD update).          *)
(* A table (nn.Embedding.weight) is a sequence of rows; the row of id e is *)
(* table[e + 1].  An unset table (None) is the empty sequence.             *)
(***************************************************************************)
EXTENDS Integers, Sequences, FiniteSets, TLC

\* ---- bounds of the model ------------------------------------------------
Scale == 10
embedding_dim == 2
num_entities == 3
num_relations == 1
MaxEpochs == 2
num_instances == 2
NumSamples == 2

None == <<>>
Entities == 0 .. (num_entities - 1)
Relations == 0 .. (num_relations - 1)
Dims == 1 .. embedding_dim
MatDims == 1 .. (embedding_dim * embedding_dim)

\* ---- arithmetic -----------------------------------------------------------
\* a vector or table as a fully evaluated sequence
AsSeq(f) == f \o <<>>

\* the element of a one-element set; in The({F(x) : x \in {v}}) the value v is
\* computed once and held in x, as a local variable holds a tensor
The(S) == CHOOSE y \in S : TRUE

Abs(x) == IF x < 0 THEN -x ELSE x

Sgn(x) == IF x < 0 THEN -1 ELSE IF x = 0 THEN 0 ELSE 1

\* a / b rounded to the nearest integer (b > 0), halves away from zero
RoundDiv(a, b) == Sgn(a) * ((2 * Abs(a) + b) \div (2 * b))

RECURSIVE SumUpTo(_, _)
SumUpTo(s, n) == IF n = 0 THEN 0 ELSE s[n] + SumUpTo(s, n - 1)

\* torch.sum over the last dimension
Sum(s) == SumUpTo(s, Len(s))

SumSq(v) == Sum([i \in 1 .. Len(v) |-> v[i] * v[i]])

\* the integer part of sqrt(n): twice the integer part of sqrt(n / 4), or one more
FloorSqrt(n) ==
    LET Root[m \in 0 .. n] ==
            IF m < 2 THEN m
            ELSE CHOOSE r \in {q + b : q \in {2 * Root[m \div 4]}, b \in {0, 1}} :
                     r * r <= m /\ (r + 1) * (r + 1) > m
    IN Root[n]

\* sqrt(n) rounded to the nearest integer: floor(sqrt(n) + 1/2)
RoundSqrt(n) == (FloorSqrt(4 * n) + 1) \div 2

\* round(Scale * |x| / sqrt(n2)) for n2 >= x * x > 0, without an intermediate root
UnitComponent(x, n2) ==
    The({Sgn(x) * (CHOOSE k \in 0 .. Scale :
                      /\ (k = 0 \/ (2 * k - 1) * (2 * k - 1) * n2 <= q)
                      /\ (2 * k + 1) * (2 * k + 1) * n2 > q) :
         q \in {4 * Scale * Scale * x * x}})

VecAdd(a, b) == AsSeq([i \in 1 .. Len(a) |-> a[i] + b[i]])

VecSub(a, b) == AsSeq([i \in 1 .. Len(a) |-> a[i] - b[i]])

TableAdd(a, b) == AsSeq([e \in 1 .. Len(a) |-> VecAdd(a[e], b[e])])

ZeroTable(rows, cols) == [e \in 1 .. rows |-> [i \in 1 .. cols |-> 0]]

\* whether a row has unit L2 norm, up to the rounding of its components
IsUnit(v) ==
    LET n2 == SumSq(v)
    IN (Scale - 1) * (Scale - 1) <= n2 /\ n2 <= (Scale + 1) * (Scale + 1)

AllUnit(table) == \A e \in 1 .. Len(table) : IsUnit(table[e])

\* ---- torch.nn.functional.normalize(weight, out=weight) --------------------
\* v / max(||v||_2, eps): a zero row stays zero
normalize_row(v) ==
    The({IF n2 = 0 THEN v ELSE AsSeq([i \in 1 .. Len(v) |-> UnitComponent(v[i], n2)]) :
         n2 \in {SumSq(v)}})

normalize(table) == AsSeq([e \in 1 .. Len(table) |-> normalize_row(table[e])])

\* ---- DistMult ---------------------------------------------------------------
\* mutant: the head is multiplied in twice and the tail is dropped
interaction_function_head_twice(h, r, t) ==
    Sum([i \in 1 .. Len(h) |-> h[i] * r[i] * h[i]])

\* torch.sum(h * r * t, dim=-1)
interaction_function(h, r, t) == Sum([i \in 1 .. Len(h) |-> h[i] * r[i] * t[i]])

\* batch rows are <<head, relation, tail>>; result shape (batch, 1)
DistMult_forward_owa(ent, rel, batch) ==
    AsSeq([b \in 1 .. Len(batch) |->
        LET h == ent[batch[b][1] + 1]
            r == rel[batch[b][2] + 1]
            t == ent[batch[b][3] + 1]
        IN <<interaction_function(h, r, t)>>])

\* batch rows are <<head, relation>>; result shape (batch, num_entities)
DistMult_forward_cwa(ent, rel, batch) ==
    AsSeq([b \in 1 .. Len(batch) |->
        LET h == ent[batch[b][1] + 1]
            r == rel[batch[b][2] + 1]
        IN AsSeq([e \in 1 .. Len(ent) |-> interaction_function(h, r, ent[e])])])

\* batch rows are <<relation, tail>>; result shape (batch, num_entities)
DistMult_forward_inverse_cwa(ent, rel, batch) ==
    AsSeq([b \in 1 .. Len(batch) |->
        LET r == rel[batch[b][1] + 1]
            t == ent[batch[b][2] + 1]
        IN AsSeq([e \in 1 .. Len(ent) |-> interaction_function(ent[e], r, t)])])

\* ---- Structured Embedding ---------------------------------------------------
\* entry (i, j) of a relation row viewed as an embedding_dim x embedding_dim matrix
MatAt(m, i, j) == m[(i - 1) * embedding_dim + j]

\* torch.matmul(relation_embeddings, entity_embeddings)
project_entities(entity, relation) ==
    AsSeq([i \in Dims |-> Sum([j \in Dims |-> MatAt(relation, i, j) * entity[j]])])

\* torch.norm(d, p): p = 1 is exact, p = 2 is rounded to the nearest unit
PNorm(d, p) ==
    IF p = 1 THEN Sum([i \in 1 .. Len(d) |-> Abs(d[i])])
    ELSE RoundSqrt(SumSq(d))

\* -torch.norm(proj_h - proj_t, p)
SE_score(proj_h, proj_t, p) == The({-PNorm(d, p) : d \in {VecSub(proj_h, proj_t)}})

\* the projections of every entity by one relation matrix
ProjectAll(ent, relation) ==
    AsSeq([e \in 1 .. Len(ent) |-> project_entities(ent[e], relation)])

\* one projected head against every projected tail (broadcast over entities)
SE_tail_scores(proj_h, proj_t, p) ==
    AsSeq([e \in 1 .. Len(proj_t) |-> SE_score(proj_h, proj_t[e], p)])

\* every projected head against one projected tail (broadcast over entities)
SE_head_scores(proj_h, proj_t, p) ==
    AsSeq([e \in 1 .. Len(proj_h) |-> SE_score(proj_h[e], proj_t, p)])

SE_forward_owa(ent, left, right, p, batch) ==
    AsSeq([b \in 1 .. Len(batch) |->
        LET h == ent[batch[b][1] + 1]
            rel_h == left[batch[b][2] + 1]
            rel_t == right[batch[b][2] + 1]
            t == ent[batch[b][3] + 1]
        IN The({<<SE_score(proj_h, proj_t, p)>> :
                    proj_h \in {project_entities(h, rel_h)},
                    proj_t \in {project_entities(t, rel_t)}})])

\* mutant: the tails are projected with the left (head) relation matrices
SE_forward_cwa_left_for_tails(ent, left, right, p, batch) ==
    AsSeq([b \in 1 .. Len(batch) |->
        LET h == ent[batch[b][1] + 1]
            rel_h == left[batch[b][2] + 1]
            rel_t == left[batch[b][2] + 1]
        IN SE_tail_scores(project_entities(h, rel_h), ProjectAll(ent, rel_t), p)])

SE_forward_cwa(ent, left, right, p, batch) ==
    AsSeq([b \in 1 .. Len(batch) |->
        LET h == ent[batch[b][1] + 1]
            rel_h == left[batch[b][2] + 1]
            rel_t == right[batch[b][2] + 1]
        IN SE_tail_scores(project_entities(h, rel_h), ProjectAll(ent, rel_t), p)])

SE_forward_inverse_cwa(ent, left, right, p, batch) ==
    AsSeq([b \in 1 .. Len(batch) |->
        LET rel_h == left[batch[b][1] + 1]
            rel_t == right[batch[b][1] + 1]
            t == ent[batch[b][2] + 1]
        IN SE_head_scores(ProjectAll(ent, rel_h), project_entities(t, rel_t), p)])

\* ---- sampled and supplied tables ---------------------------------------------
\* The random initialisers draw from continuous distributions; a draw is one
\* of NumSamples tables.  No row of these tables is zero (embedding_dim >= 2)
\* and none has unit norm.
Samples == 1 .. NumSamples

SampleTable(rows, cols, k, a, m) ==
    [e \in 1 .. rows |-> [i \in 1 .. cols |-> ((a * e + 5 * i + 7 * k) % m) - (m \div 2)]]

\* embedding_xavier_uniform_ on an (num_entities, embedding_dim) table
xavier_entities(k) == SampleTable(num_entities, embedding_dim, k, 3, 13)

\* embedding_xavier_uniform_ on an (num_relations, embedding_dim) table
xavier_relations(k) == SampleTable(num_relations, embedding_dim, k, 4, 11)

\* nn.init.uniform_(-6/sqrt(E), +6/sqrt(E))
uniform_entities(k) == SampleTable(num_entities, embedding_dim, k, 9, 37)

uniform_relations(k) == SampleTable(num_relations, embedding_dim * embedding_dim, k, 7, 31)

\* tables a caller passes to the constructor (pre-trained embeddings)
SuppliedEntities == SampleTable(num_entities, embedding_dim, 0, 2, 17)

SuppliedRelations == SampleTable(num_relations, embedding_dim, 0, 6, 19)

SuppliedLeft == SampleTable(num_relations, embedding_dim * embedding_dim, 0, 3, 23)

SuppliedRight == SampleTable(num_relations, embedding_dim * embedding_dim, 3, 5, 29)

\* ---- state ------------------------------------------------------------------
VARIABLES
    model_name,                 \* "DistMult" or "SE": the class of the instance
    scoring_fct_norm,           \* SE: the order p of the scoring norm
    init,                       \* DistMult: the constructor's init argument
    entity_embeddings,
    relation_embeddings,        \* DistMult
    left_relation_embeddings,   \* SE
    right_relation_embeddings,  \* SE
    forward_constraint_applied,
    scores,                     \* what the latest forward_* call returned
    pc,                         \* where the program is
    lastOp,                     \* the operation that produced this state
    num_epochs, epoch, step,    \* Pipeline._train: its argument and loop counters
    pos_triples, neg_triples,   \* Pipeline._train: the shuffled training arrays
    grads,                      \* the parameters' .grad
    loss, total_loss,
    calls,                      \* how often each phase of a training step has run
    ratio_test_data,            \* Pipeline.start_pipeline: its argument
    result                      \* what start_pipeline returned

modelVars == <<model_name, scoring_fct_norm, init>>

weightVars == <<entity_embeddings, relation_embeddings,
                left_relation_embeddings, right_relation_embeddings>>

trainVars == <<num_epochs, epoch, step, pos_triples, neg_triples, grads,
               loss, total_loss, calls>>

pipeVars == <<ratio_test_data, result>>

vars == <<modelVars, weightVars, forward_constraint_applied, scores, pc, lastOp,
          trainVars, pipeVars>>

NoCalls == [zero_grad |-> 0, forward |-> 0, backward |-> 0, optimizer_step |-> 0,
            accumulate |-> 0]

\* The state after the constructor has stored its arguments (distmult.py 57,
\* structured_embedding.py 56-59) and before its call of the initialiser.
Init ==
    /\ model_name \in {"DistMult", "SE"}
    /\ scoring_fct_norm \in (IF model_name = "SE" THEN {1, 2} ELSE {1})
    /\ init \in (IF model_name = "DistMult" THEN BOOLEAN ELSE {TRUE})
    /\ entity_embeddings \in
         (IF model_name = "DistMult" THEN {None, SuppliedEntities} ELSE {None})
    /\ relation_embeddings \in
         (IF model_name = "DistMult" THEN {None, SuppliedRelations} ELSE {None})
    /\ left_relation_embeddings \in
         (IF model_name = "SE" THEN {None, SuppliedLeft} ELSE {None})
    /\ right_relation_embeddings \in
         (IF model_name = "SE" THEN {None, SuppliedRight} ELSE {None})
    /\ forward_constraint_applied = FALSE
    /\ scores = None
    /\ pc = "__init__"
    /\ lastOp = "none"
    /\ num_epochs = 0 /\ epoch = 0 /\ step = 0
    /\ pos_triples = None /\ neg_triples = None
    /\ grads = None
    /\ loss = 0 /\ total_loss = 0
    /\ calls = NoCalls
    /\ ratio_test_data = "None"
    /\ result = None

\* ---- initialisation and clearing of the tables -------------------------------
\* DistMult.init_empty_weights_ with the draw k of the random initialiser
init_empty_weights(ent, rel, k) ==
    [entity_embeddings |-> IF ent = None THEN xavier_entities(k) ELSE ent,
     relation_embeddings |-> IF rel = None THEN normalize(xavier_relations(k)) ELSE rel]

\* StructuredEmbedding._init_embeddings with the draw k
init_embeddings(ent, left, right, k) ==
    [entity_embeddings |-> uniform_entities(k),
     left_relation_embeddings |-> normalize(uniform_relations(k)),
     right_relation_embeddings |-> normalize(uniform_relations(k + NumSamples))]

\* DistMult.clear_weights_
clear_weights(ent, rel) ==
    [entity_embeddings |-> None, relation_embeddings |-> None]

\* the rest of DistMult.__init__: if init: self.init_empty_weights_()
DistMultConstruct ==
    /\ pc = "__init__" /\ model_name = "DistMult"
    /\ \E k \in Samples :
         LET w == IF init
                  THEN init_empty_weights(entity_embeddings, relation_embeddings, k)
                  ELSE [entity_embeddings |-> entity_embeddings,
                        relation_embeddings |-> relation_embeddings]
         IN /\ entity_embeddings' = w.entity_embeddings
            /\ relation_embeddings' = w.relation_embeddings
    /\ pc' = "ready" /\ lastOp' = "__init__"
    /\ UNCHANGED <<modelVars, left_relation_embeddings, right_relation_embeddings,
                   forward_constraint_applied, scores, trainVars, pipeVars>>

\* the rest of StructuredEmbedding.__init__:
\* if None in [left, right]: self._init_embeddings()
SEConstruct ==
    /\ pc = "__init__" /\ model_name = "SE"
    /\ \E k \in Samples :
         LET w == IF left_relation_embeddings = None \/ right_relation_embeddings = None
                  THEN init_embeddings(entity_embeddings, left_relation_embeddings,
                                       right_relation_embeddings, k)
                  ELSE [entity_embeddings |-> entity_embeddings,
                        left_relation_embeddings |-> left_relation_embeddings,
                        right_relation_embeddings |-> right_relation_embeddings]
         IN /\ entity_embeddings' = w.entity_embeddings
            /\ left_relation_embeddings' = w.left_relation_embeddings
            /\ right_relation_embeddings' = w.right_relation_embeddings
    /\ pc' = "ready" /\ lastOp' = "__init__"
    /\ UNCHANGED <<modelVars, relation_embeddings, forward_constraint_applied,
                   scores, trainVars, pipeVars>>

\* A caller holds the instance: after construction, or after the pipeline
\* has returned it.
CallerHoldsModel == pc \in {"ready", "done"}

\* Clearing and re-initialising are followed on an instance the caller has
\* constructed.  On an instance the pipeline returned they give the same
\* tables and the same flag (the flag is true after any forward call).
CallerBuiltModel == pc = "ready"

InitEmptyWeights ==
    /\ CallerBuiltModel /\ model_name = "DistMult"
    /\ \E k \in Samples :
         LET w == init_empty_weights(entity_embeddings, relation_embeddings, k)
         IN /\ entity_embeddings' = w.entity_embeddings
            /\ relation_embeddings' = w.relation_embeddings
    /\ lastOp' = "init_empty_weights_"
    /\ UNCHANGED <<modelVars, left_relation_embeddings, right_relation_embeddings,
                   forward_constraint_applied, scores, pc, trainVars, pipeVars>>

ClearWeights ==
    /\ CallerBuiltModel /\ model_name = "DistMult"
    /\ LET w == clear_weights(entity_embeddings, relation_embeddings)
       IN /\ entity_embeddings' = w.entity_embeddings
          /\ relation_embeddings' = w.relation_embeddings
    /\ lastOp' = "clear_weights_"
    /\ UNCHANGED <<modelVars, left_relation_embeddings, right_relation_embeddings,
                   forward_constraint_applied, scores, pc, trainVars, pipeVars>>

\* ---- forward constraint and the three forward modes ----------------------------
\* mutant: the flag is not consulted, every forward call normalizes again
apply_forward_constraints_always(ent, applied) ==
    [entity_embeddings |-> normalize(ent), forward_constraint_applied |-> TRUE]

\* _apply_forward_constraints_if_necessary (the same code in both classes)
apply_forward_constraints_if_necessary(ent, applied) ==
    IF ~applied
    THEN [entity_embeddings |-> normalize(ent), forward_constraint_applied |-> TRUE]
    ELSE [entity_embeddings |-> ent, forward_constraint_applied |-> applied]

\* forward_* raise on an unset table
Populated ==
    /\ entity_embeddings # None
    /\ IF model_name = "DistMult" THEN relation_embeddings # None
       ELSE left_relation_embeddings # None /\ right_relation_embeddings # None

\* the scores of each mode on the entity table ent (the constraint already applied)
forward_owa(ent, batch) ==
    IF model_name = "DistMult"
    THEN DistMult_forward_owa(ent, relation_embeddings, batch)
    ELSE SE_forward_owa(ent, left_relation_embeddings, right_relation_embeddings,
                        scoring_fct_norm, batch)

forward_cwa(ent, batch) ==
    IF model_name = "DistMult"
    THEN DistMult_forward_cwa(ent, relation_embeddings, batch)
    ELSE SE_forward_cwa(ent, left_relation_embeddings, right_relation_embeddings,
                        scoring_fct_norm, batch)

forward_inverse_cwa(ent, batch) ==
    IF model_name = "DistMult"
    THEN DistMult_forward_inverse_cwa(ent, relation_embeddings, batch)
    ELSE SE_forward_inverse_cwa(ent, left_relation_embeddings, right_relation_embeddings,
                                scoring_fct_norm, batch)

\* the triples of the knowledge graph and their corrupted counterparts
\* (create_triples_and_mappings, create_negative_triples)
PosTriple(i) == <<(i - 1) % num_entities, (i - 1) % num_relations, i % num_entities>>

NegTriple(i) == <<(i - 1) % num_entities, (i - 1) % num_relations, (i + 1) % num_entities>>

\* the batches a caller scores: the first training pair and the test triple
CallerTriples == {1, num_instances + 1}

OwaBatches == {<<PosTriple(i), NegTriple(i)>> : i \in CallerTriples}

CwaBatches == {<< <<PosTriple(i)[1], PosTriple(i)[2]>> >> : i \in CallerTriples}

InverseCwaBatches == {<< <<PosTriple(i)[2], PosTriple(i)[3]>> >> : i \in CallerTriples}

ForwardOwa ==
    /\ CallerHoldsModel /\ Populated
    /\ \E batch \in OwaBatches :
         LET c == apply_forward_constraints_if_necessary(entity_embeddings,
                                                         forward_constraint_applied)
         IN /\ entity_embeddings' = c.entity_embeddings
            /\ forward_constraint_applied' = c.forward_constraint_applied
            /\ scores' = forward_owa(c.entity_embeddings, batch)
    /\ lastOp' = "forward_owa"
    /\ UNCHANGED <<modelVars, relation_embeddings, left_relation_embeddings,
                   right_relation_embeddings, pc, trainVars, pipeVars>>

ForwardCwa ==
    /\ CallerHoldsModel /\ Populated
    /\ \E batch \in CwaBatches :
         LET c == apply_forward_constraints_if_necessary(entity_embeddings,
                                                         forward_constraint_applied)
         IN /\ entity_embeddings' = c.entity_embeddings
            /\ forward_constraint_applied' = c.forward_constraint_applied
            /\ scores' = forward_cwa(c.entity_embeddings, batch)
    /\ lastOp' = "forward_cwa"
    /\ UNCHANGED <<modelVars, relation_embeddings, left_relation_embeddings,
                   right_relation_embeddings, pc, trainVars, pipeVars>>

ForwardInverseCwa ==
    /\ CallerHoldsModel /\ Populated
    /\ \E batch \in InverseCwaBatches :
         LET c == apply_forward_constraints_if_necessary(entity_embeddings,
                                                         forward_constraint_applied)
         IN /\ entity_embeddings' = c.entity_embeddings
            /\ forward_constraint_applied' = c.forward_constraint_applied
            /\ scores' = forward_inverse_cwa(c.entity_embeddings, batch)
    /\ lastOp' = "forward_inverse_cwa"
    /\ UNCHANGED <<modelVars, relation_embeddings, left_relation_embeddings,
                   right_relation_embeddings, pc, trainVars, pipeVars>>

\* ---- loss, gradients and the SGD update -----------------------------------------
\* the run's learning rate, as a fraction <<numerator, denominator>>
learning_rate == <<1, 2>>

\* margin = 1.0 in the unit of the model's scores
margin == IF model_name = "DistMult" THEN Scale * Scale * Scale ELSE Scale * Scale

\* nn.MarginRankingLoss(margin=1., reduction='mean') with target +1
compute_loss(positive_scores, negative_scores) ==
    LET l == margin - positive_scores[1][1] + negative_scores[1][1]
    IN IF l > 0 THEN l ELSE 0

\* d loss / d score of the positive (sign = -1) or negative (sign = +1) triple
LossCoefficient(l, sign) == IF l > 0 THEN sign ELSE 0

\* d ||d||_p / d d, in units of 1 / Scale
NormGradient(d, p) ==
    IF p = 1 THEN AsSeq([i \in 1 .. Len(d) |-> Scale * Sgn(d[i])])
    ELSE The({AsSeq([i \in 1 .. Len(d) |-> IF n = 0 THEN 0 ELSE RoundDiv(Scale * d[i], n)]) :
              n \in {PNorm(d, 2)}})

\* c * d score(tr) / d parameters, per table, for DistMult
DistMultGradient(ent, rel, tr, c) ==
    LET h == ent[tr[1] + 1]
        r == rel[tr[2] + 1]
        t == ent[tr[3] + 1]
    IN [entity |->
          AsSeq([e \in 1 .. Len(ent) |-> AsSeq([i \in 1 .. Len(h) |->
              c * ((IF e = tr[1] + 1 THEN r[i] * t[i] ELSE 0)
                   + (IF e = tr[3] + 1 THEN h[i] * r[i] ELSE 0))])]),
        relation |->
          AsSeq([k \in 1 .. Len(rel) |-> AsSeq([i \in 1 .. Len(h) |->
              IF k = tr[2] + 1 THEN c * h[i] * t[i] ELSE 0])]),
        left |-> None,
        right |-> None]

\* c * d ||d||_p / d parameters for d = M_left h - M_right t, per table
SENormGradient(ent, left, right, h, t, rel_h, rel_t, g, tr, c) ==
    [entity |->
       AsSeq([e \in 1 .. Len(ent) |-> AsSeq([j \in Dims |->
           c * ((IF e = tr[1] + 1
                 THEN -Sum([i \in Dims |-> g[i] * MatAt(rel_h, i, j)]) ELSE 0)
                + (IF e = tr[3] + 1
                   THEN Sum([i \in Dims |-> g[i] * MatAt(rel_t, i, j)]) ELSE 0))])]),
     relation |-> None,
     left |->
       AsSeq([k \in 1 .. Len(left) |-> AsSeq([m \in MatDims |->
           IF k = tr[2] + 1
           THEN -c * g[((m - 1) \div embedding_dim) + 1] * h[((m - 1) % embedding_dim) + 1]
           ELSE 0])]),
     right |->
       AsSeq([k \in 1 .. Len(right) |-> AsSeq([m \in MatDims |->
           IF k = tr[2] + 1
           THEN c * g[((m - 1) \div embedding_dim) + 1] * t[((m - 1) % embedding_dim) + 1]
           ELSE 0])])]

\* c * d score(tr) / d parameters, per table, for Structured Embedding
\* (the score is -||d||_p)
SEGradient(ent, left, right, p, tr, c) ==
    LET h == ent[tr[1] + 1]
        t == ent[tr[3] + 1]
        rel_h == left[tr[2] + 1]
        rel_t == right[tr[2] + 1]
    IN The({The({SENormGradient(ent, left, right, h, t, rel_h, rel_t, g, tr, c) :
                     g \in {NormGradient(d, p)}}) :
                d \in {VecSub(project_entities(h, rel_h), project_entities(t, rel_t))}})

Gradient(ent, tr, c) ==
    IF model_name = "DistMult"
    THEN DistMultGradient(ent, relation_embeddings, tr, c)
    ELSE SEGradient(ent, left_relation_embeddings, right_relation_embeddings,
                    scoring_fct_norm, tr, c)

GradAdd(a, b) ==
    [entity |-> TableAdd(a.entity, b.entity), relation |-> TableAdd(a.relation, b.relation),
     left |-> TableAdd(a.left, b.left), right |-> TableAdd(a.right, b.right)]

ZeroGrads(g) ==
    [entity |-> ZeroTable(Len(g.entity), embedding_dim),
     relation |-> ZeroTable(Len(g.relation), embedding_dim),
     left |-> ZeroTable(Len(g.left), embedding_dim * embedding_dim),
     right |-> ZeroTable(Len(g.right), embedding_dim * embedding_dim)]

\* optim.SGD.step on one table: weight -= lr * grad
sgd_step(table, grad) ==
    IF table = None THEN None
    ELSE [e \in 1 .. Len(table) |-> [i \in 1 .. Len(table[e]) |->
            table[e][i] - RoundDiv(learning_rate[1] * grad[e][i], learning_rate[2] * Scale)]]

\* ---- Pipeline.start_pipeline and Pipeline._train --------------------------------
\* mutant: range(n + 1)
InRange_inclusive(i, n) == i <= n

\* mutant: range(n - 1)
InRange_one_short(i, n) == i + 1 < n

\* for i in range(n): whether the body runs for index i
InRange(i, n) == i < n

\* the test triple train_test_split holds back
TestTriple == PosTriple(num_instances + 1)

\* start_pipeline up to its call of _train (lines 36-57).  The pipeline
\* builds the model itself, so training starts on a freshly constructed instance.
StartPipeline ==
    /\ pc = "ready" /\ lastOp = "__init__" /\ Populated
    /\ \E n \in 0 .. MaxEpochs : num_epochs' = n
    /\ \E ratio \in {"None", "0.1"} : ratio_test_data' = ratio
    /\ pos_triples' = [i \in 1 .. num_instances |-> PosTriple(i)]
    /\ neg_triples' = [i \in 1 .. num_instances |-> NegTriple(i)]
    /\ pc' = "train" /\ lastOp' = "start_pipeline"
    /\ UNCHANGED <<modelVars, weightVars, forward_constraint_applied, scores,
                   epoch, step, grads, loss, total_loss, calls, result>>

\* mutant: the indices are drawn with replacement
shuffle_with_replacement(n) == [1 .. n -> 1 .. n]

\* lines 82-83: the index arrays np.random.shuffle(np.arange(n)) can leave,
\* one per seed
shuffle(n) == Permutations(1 .. n)

\* _train lines 81-96: shuffle both arrays by the same seeded permutation
TrainShuffle ==
    /\ pc = "train"
    /\ \E indices \in shuffle(Len(pos_triples)) :
         /\ pos_triples' = [i \in 1 .. Len(pos_triples) |-> pos_triples[indices[i]]]
         /\ neg_triples' = [i \in 1 .. Len(neg_triples) |-> neg_triples[indices[i]]]
    /\ total_loss' = 0 /\ epoch' = 0 /\ step' = 0
    /\ pc' = "for_epoch" /\ lastOp' = "shuffle"
    /\ UNCHANGED <<modelVars, weightVars, forward_constraint_applied, scores,
                   num_epochs, grads, loss, calls, pipeVars>>

\* line 98: for epoch in range(num_epochs)
ForEpoch ==
    /\ pc = "for_epoch"
    /\ IF InRange(epoch, num_epochs)
       THEN pc' = "for_step" /\ step' = 0
       ELSE pc' = "trained" /\ step' = step
    /\ lastOp' = "for_epoch"
    /\ UNCHANGED <<modelVars, weightVars, forward_constraint_applied, scores,
                   num_epochs, epoch, pos_triples, neg_triples, grads, loss,
                   total_loss, calls, pipeVars>>

\* line 100: for step in range(num_instances); lines 119-120 when it is exhausted
ForStep ==
    /\ pc = "for_step"
    /\ IF InRange(step, Len(pos_triples))
       THEN pc' = "zero_grad" /\ epoch' = epoch
       ELSE pc' = "for_epoch" /\ epoch' = epoch + 1
    /\ lastOp' = "for_step"
    /\ UNCHANGED <<modelVars, weightVars, forward_constraint_applied, scores,
                   num_epochs, step, pos_triples, neg_triples, grads, loss,
                   total_loss, calls, pipeVars>>

\* line 109: optimizer.zero_grad()
ZeroGrad ==
    /\ pc = "zero_grad"
    /\ grads' = IF grads = None THEN None ELSE ZeroGrads(grads)
    /\ calls' = [calls EXCEPT !.zero_grad = @ + 1]
    /\ pc' = "forward" /\ lastOp' = "zero_grad"
    /\ UNCHANGED <<modelVars, weightVars, forward_constraint_applied, scores,
                   num_epochs, epoch, step, pos_triples, neg_triples, loss,
                   total_loss, pipeVars>>

\* line 111: loss = self.kg_embedding_model(pos_triple, neg_triple)
TrainForward ==
    /\ pc = "forward"
    /\ \E c \in {apply_forward_constraints_if_necessary(entity_embeddings,
                                                         forward_constraint_applied)} :
         \E positive_scores \in {forward_owa(c.entity_embeddings,
                                             <<pos_triples[step + 1]>>)},
            negative_scores \in {forward_owa(c.entity_embeddings,
                                             <<neg_triples[step + 1]>>)} :
             /\ entity_embeddings' = c.entity_embeddings
             /\ forward_constraint_applied' = c.forward_constraint_applied
             /\ loss' = compute_loss(positive_scores, negative_scores)
    /\ calls' = [calls EXCEPT !.forward = @ + 1]
    /\ pc' = "backward" /\ lastOp' = "forward"
    /\ UNCHANGED <<modelVars, relation_embeddings, left_relation_embeddings,
                   right_relation_embeddings, scores, num_epochs, epoch, step,
                   pos_triples, neg_triples, grads, total_loss, pipeVars>>

\* line 113: loss.backward() adds the gradient of the loss to every .grad
Backward ==
    /\ pc = "backward"
    /\ \E gp \in {Gradient(entity_embeddings, pos_triples[step + 1],
                            LossCoefficient(loss, -1))},
          gn \in {Gradient(entity_embeddings, neg_triples[step + 1],
                            LossCoefficient(loss, 1))} :
         \E g \in {GradAdd(gp, gn)} :
             grads' = IF grads = None THEN g ELSE GradAdd(grads, g)
    /\ calls' = [calls EXCEPT !.backward = @ + 1]
    /\ pc' = "optimizer_step" /\ lastOp' = "backward"
    /\ UNCHANGED <<modelVars, weightVars, forward_constraint_applied, scores,
                   num_epochs, epoch, step, pos_triples, neg_triples, loss,
                   total_loss, pipeVars>>

\* line 114: optimizer.step()
OptimizerStep ==
    /\ pc = "optimizer_step"
    /\ entity_embeddings' = sgd_step(entity_embeddings, grads.entity)
    /\ relation_embeddings' = sgd_step(relation_embeddings, grads.relation)
    /\ left_relation_embeddings' = sgd_step(left_relation_embeddings, grads.left)
    /\ right_relation_embeddings' = sgd_step(right_relation_embeddings, grads.right)
    /\ calls' = [calls EXCEPT !.optimizer_step = @ + 1]
    /\ pc' = "accumulate" /\ lastOp' = "optimizer_step"
    /\ UNCHANGED <<modelVars, forward_constraint_applied, scores, num_epochs, epoch,
                   step, pos_triples, neg_triples, grads, loss, total_loss, pipeVars>>

\* line 117: total_loss += loss.item(); then the next step of the loop
Accumulate ==
    /\ pc = "accumulate"
    /\ total_loss' = total_loss + loss
    /\ calls' = [calls EXCEPT !.accumulate = @ + 1]
    /\ step' = step + 1
    /\ pc' = "for_step" /\ lastOp' = "accumulate"
    /\ UNCHANGED <<modelVars, weightVars, forward_constraint_applied, scores,
                   num_epochs, epoch, pos_triples, neg_triples, grads, loss, pipeVars>>

\* lines 59-65: the evaluator ranks the true tail of the test triple among all
\* entities by the forward_cwa scores
Evaluate ==
    /\ pc = "trained"
    /\ LET c == apply_forward_constraints_if_necessary(entity_embeddings,
                                                       forward_constraint_applied)
           s == forward_cwa(c.entity_embeddings, << <<TestTriple[1], TestTriple[2]>> >>)
       IN /\ entity_embeddings' = c.entity_embeddings
          /\ forward_constraint_applied' = c.forward_constraint_applied
          /\ scores' = s
    /\ pc' = "evaluated" /\ lastOp' = "start_evaluation"
    /\ UNCHANGED <<modelVars, relation_embeddings, left_relation_embeddings,
                   right_relation_embeddings, trainVars, pipeVars>>

\* rank of the true tail: 1 + the number of entities that score higher
MeanRank(s, tail) == 1 + Cardinality({e \in 1 .. Len(s[1]) : s[1][e] > s[1][tail + 1]})

\* lines 67-77: the returned tuple, field by field
Return ==
    /\ pc = "evaluated"
    /\ result' = [kg_embedding_model |-> model_name,
                  eval_summary |-> [mean_rank |-> MeanRank(scores, TestTriple[3])],
                  entity_to_embedding |-> entity_embeddings,
                  relation_to_embedding |->
                      IF model_name = "DistMult" THEN relation_embeddings
                      ELSE <<left_relation_embeddings, right_relation_embeddings>>]
    /\ pc' = "done" /\ lastOp' = "return"
    /\ UNCHANGED <<modelVars, weightVars, forward_constraint_applied, scores,
                   trainVars, ratio_test_data>>

TrainNext ==
    \/ TrainShuffle \/ ForEpoch \/ ForStep \/ ZeroGrad \/ TrainForward
    \/ Backward \/ OptimizerStep \/ Accumulate

Next ==
    \/ DistMultConstruct \/ SEConstruct
    \/ InitEmptyWeights \/ ClearWeights
    \/ ForwardOwa \/ ForwardCwa \/ ForwardInverseCwa
    \/ StartPipeline \/ TrainNext
    \/ Evaluate \/ Return

Spec == Init /\ [][Next]_vars

\* _train is one synchronous call: once entered, its next statement is executed
FairSpec == Spec /\ WF_vars(TrainNext)

\* ---- properties ------------------------------------------------------------------
ForwardOps == {"forward_owa", "forward_cwa", "forward_inverse_cwa"}

\* every operation that runs _apply_forward_constraints_if_necessary
ConstraintOps == ForwardOps \cup {"forward", "start_evaluation"}

\* C1: whenever the forward-constraint flag is true every entity embedding has
\* unit L2 norm, and the flag goes from true to false only in a step that
\* replaces or clears the embedding tables.
C1_FlagMeansUnitNorm ==
    /\ [](forward_constraint_applied /\ entity_embeddings # None
            => AllUnit(entity_embeddings))
    /\ [][(forward_constraint_applied /\ ~forward_constraint_applied')
            => weightVars' # weightVars]_vars

\* C2: initialisation never changes a table that is already set: a table that
\* is populated before init_empty_weights_ / _init_embeddings is the same after.
C2_InitSkipsPopulatedTables ==
    [][lastOp' \in {"__init__", "init_empty_weights_"} =>
        /\ entity_embeddings # None => entity_embeddings' = entity_embeddings
        /\ relation_embeddings # None => relation_embeddings' = relation_embeddings
        /\ left_relation_embeddings # None
             => left_relation_embeddings' = left_relation_embeddings
        /\ right_relation_embeddings # None
             => right_relation_embeddings' = right_relation_embeddings]_vars

HasShape(table, rows, cols) ==
    /\ Len(table) = rows
    /\ \A e \in 1 .. rows : Len(table[e]) = cols

\* C3: clear_weights_ unsets both tables, and init_empty_weights_ right after
\* it repopulates both with shapes (num_entities, E) and (num_relations, E) and
\* leaves the forward-constraint flag at "not applied".
C3_ClearThenInitRearms ==
    /\ [](lastOp = "clear_weights_"
            => entity_embeddings = None /\ relation_embeddings = None)
    /\ [][(lastOp = "clear_weights_" /\ lastOp' = "init_empty_weights_") =>
            /\ HasShape(entity_embeddings', num_entities, embedding_dim)
            /\ HasShape(relation_embeddings', num_relations, embedding_dim)
            /\ ~forward_constraint_applied']_vars

C4_AllHeads(r) == AsSeq([b \in 1 .. num_entities |-> <<b - 1, r>>])

C4_AllHeadsWithTail(r, t) == AsSeq([b \in 1 .. num_entities |-> <<b - 1, r, t>>])

C4_ColumnHolds(cwa, owa, t) ==
    \A b \in 1 .. num_entities : cwa[b][t + 1] = owa[b][1]

C4_RowsHold(ent, cwa, r) ==
    \A t \in Entities :
        C4_ColumnHolds(cwa, forward_owa(ent, C4_AllHeadsWithTail(r, t)), t)

C4_StoreHolds(ent) ==
    \A r \in Relations : C4_RowsHold(ent, forward_cwa(ent, C4_AllHeads(r)), r)

\* C4: for every head h, relation r and tail t, the entry of forward_cwa([h, r])
\* in the column of t equals forward_owa([h, r, t]) on the same embedding store
\* (checked on batches with one row per head, so that the rows must not be
\* mixed up either).
C4_CwaColumnEqualsOwa ==
    Populated =>
        C4_StoreHolds(apply_forward_constraints_if_necessary(
                          entity_embeddings, forward_constraint_applied).entity_embeddings)

\* a caller has scored a (head, relation) pair of the trained model against all
\* entities, and the columns differ
C4_Witness ==
    /\ pc = "done" /\ lastOp = "forward_cwa" /\ calls.optimizer_step > 0
    /\ \E i \in CallerTriples :
          LET tr == PosTriple(i)
          IN /\ scores = forward_cwa(entity_embeddings, << <<tr[1], tr[2]>> >>)
             /\ scores[1][tr[3] + 1] = forward_owa(entity_embeddings, <<tr>>)[1][1]
             /\ \E e \in 1 .. num_entities : scores[1][e] # scores[1][tr[3] + 1]

\* C5: a forward call sets the forward-constraint flag, and a forward call
\* made while the flag is set leaves the entity embeddings exactly as they
\* are; so the second of two consecutive forward calls changes nothing.
C5_SecondForwardKeepsEmbeddings ==
    [][lastOp' \in ConstraintOps =>
        /\ forward_constraint_applied'
        /\ forward_constraint_applied => entity_embeddings' = entity_embeddings]_vars

\* a run without training steps: the evaluation was the first forward call;
\* the caller's forward call after it found the flag set and the entity
\* embeddings are still the unit-normalized ones the pipeline returned
C5_Witness ==
    /\ pc = "done" /\ num_epochs = 0 /\ lastOp \in ForwardOps
    /\ forward_constraint_applied
    /\ entity_embeddings = result.entity_to_embedding
    /\ AllUnit(entity_embeddings)

\* C6: DistMult's interaction function is symmetric in head and tail, for all
\* embeddings h, r, t the model holds.
C6_InteractionSymmetric ==
    (model_name = "DistMult" /\ entity_embeddings # None) =>
        \A h, t \in 1 .. Len(entity_embeddings) :
          h < t =>
            \A r \in {relation_embeddings[k] : k \in 1 .. Len(relation_embeddings)}
                     \cup {entity_embeddings[k] : k \in 1 .. Len(entity_embeddings)} :
                interaction_function(entity_embeddings[h], r, entity_embeddings[t])
                  = interaction_function(entity_embeddings[t], r, entity_embeddings[h])

\* a caller has scored a triple of a trained DistMult model; the score is not
\* zero and is also the score of the triple with head and tail exchanged
C6_Witness ==
    /\ model_name = "DistMult" /\ lastOp = "forward_owa" /\ calls.optimizer_step > 0
    /\ \E i \in CallerTriples :
          LET tr == PosTriple(i)
          IN /\ scores = forward_owa(entity_embeddings, <<tr, NegTriple(i)>>)
             /\ scores[1][1] # 0
             /\ entity_embeddings[tr[1] + 1] # entity_embeddings[tr[3] + 1]
             /\ scores[1][1] = interaction_function(entity_embeddings[tr[3] + 1],
                                                    relation_embeddings[tr[2] + 1],
                                                    entity_embeddings[tr[1] + 1])

TrainPcs == {"train", "for_epoch", "for_step", "zero_grad", "forward", "backward",
             "optimizer_step", "accumulate", "trained"}

\* C7: with num_epochs = 0 no step of _train enters the loop body: no phase of a
\* training step runs, the accumulated loss stays zero, and the tables and the
\* forward-constraint flag stay what they were after initialisation.
C7_ZeroEpochsTouchNothing ==
    [][(pc' \in TrainPcs /\ num_epochs' = 0) =>
        /\ pc' \in {"train", "for_epoch", "trained"}
        /\ calls' = NoCalls
        /\ total_loss' = 0
        /\ weightVars' = weightVars
        /\ forward_constraint_applied' = forward_constraint_applied]_vars

C7_Witness ==
    /\ pc = "trained" /\ num_epochs = 0 /\ lastOp = "for_epoch"
    /\ calls = NoCalls /\ total_loss = 0 /\ ~forward_constraint_applied

\* C8: the returned result holds an evaluation summary if and only if a test-set
\* ratio is configured, and evaluation starts only after all epochs are done.
C8_EvalSummaryIffTestRatio ==
    /\ pc = "done" =>
         (("eval_summary" \in DOMAIN result) <=> (ratio_test_data # "None"))
    /\ lastOp = "start_evaluation" =>
         calls.optimizer_step = num_epochs * Len(pos_triples)

\* C9: the training loop disarms the forward-constraint flag after every
\* optimizer step, so the scores of every training step are computed on
\* unit-normalized entity embeddings.
C9_FlagDisarmedAfterOptimizerStep ==
    /\ lastOp = "optimizer_step" => ~forward_constraint_applied
    /\ lastOp = "forward" => AllUnit(entity_embeddings)

\* the counts of the phases of a training step, in the order of the loop body
PhasesOrdered ==
    /\ calls.zero_grad >= calls.forward
    /\ calls.forward >= calls.backward
    /\ calls.backward >= calls.optimizer_step
    /\ calls.optimizer_step >= calls.accumulate
    /\ calls.zero_grad <= calls.accumulate + 1
    /\ calls.optimizer_step <= num_epochs * num_instances
    /\ pc \in {"zero_grad", "forward", "backward", "optimizer_step", "accumulate"} =>
         /\ epoch < num_epochs /\ step < Len(pos_triples)
         /\ calls.accumulate = epoch * Len(pos_triples) + step
    /\ pc \in {"trained", "evaluated", "done"} =>
         \A ph \in DOMAIN calls : calls[ph] = num_epochs * Len(pos_triples)

\* C10: the phases of a training step run in the order zero_grad, forward,
\* backward, optimizer step, accumulate, each step ends before the next starts,
\* a step only runs for an epoch and an instance inside their ranges, and _train,
\* once entered, returns, after exactly num_epochs * num_instances optimizer steps.
C10_StepPhasesInOrder ==
    /\ []PhasesOrdered
    /\ (pc = "train") ~> (pc = "trained")

C10_Witness ==
    /\ pc = "trained" /\ num_epochs = MaxEpochs
    /\ calls.optimizer_step = MaxEpochs * num_instances
    /\ calls.accumulate = calls.zero_grad /\ calls.zero_grad > 1

\* the positions of _train after the shuffle, and of its caller after _train
AfterShufflePcs == {"for_epoch", "for_step", "zero_grad", "forward", "backward",
                   "optimizer_step", "accumulate", "trained", "evaluated", "done"}

\* the arrays _train iterates over are the input arrays rearranged by one
\* permutation: row i of both is pair indices[i] of the input
C11_PairsPermuted ==
    pc \in AfterShufflePcs =>
        /\ Len(pos_triples) = num_instances /\ Len(neg_triples) = num_instances
        /\ \E indices \in Permutations(1 .. num_instances) :
              \A i \in 1 .. num_instances :
                  /\ pos_triples[i] = PosTriple(indices[i])
                  /\ neg_triples[i] = NegTriple(indices[i])

\* the loss of a step is the loss of the pair in row `step` of the arrays
C11_StepTakesItsRow ==
    lastOp = "forward" =>
        loss = compute_loss(forward_owa(entity_embeddings, <<pos_triples[step + 1]>>),
                            forward_owa(entity_embeddings, <<neg_triples[step + 1]>>))

\* C11: the training pairs are shuffled once, before the first epoch: after the
\* shuffle both arrays are the input arrays rearranged by the same permutation
\* (so every positive triple keeps the negative triple of its input index),
\* no later step of the run changes either array, and every step of every
\* epoch computes its loss on the pair in row `step`.
C11_ShuffledOnceAndPaired ==
    /\ [](C11_PairsPermuted /\ C11_StepTakesItsRow)
    /\ [][(pc \in AfterShufflePcs) =>
            (pos_triples' = pos_triples /\ neg_triples' = neg_triples)]_vars

\* the second step of a later epoch, on arrays the shuffle has reordered: the
\* loss is that of the pair in row 2, which is the first pair of the input
C11_Witness ==
    /\ lastOp = "forward" /\ epoch >= 1 /\ step = 1
    /\ pos_triples[1] # PosTriple(1)
    /\ pos_triples[2] = PosTriple(1) /\ neg_triples[2] = NegTriple(1)
    /\ loss > 0
    /\ loss = compute_loss(forward_owa(entity_embeddings, <<pos_triples[2]>>),
                            forward_owa(entity_embeddings, <<neg_triples[2]>>))

====
